---- MODULE Spec2Model ----
(***************************************************************************)
(* Model of the DAG verifier verify_dag_acyclic.py: the CSV matrix loader, *)
(* the adjacency builder, the three-colour DFS cycle detector, Kahn's      *)
(* topological sort, the self-loop and forward-ordering scans and the main *)
(* script that chains them.                                                *)
(*                                                                         *)
(* Weights and priors are kept in tenths (0.5 is 5, 1.0 is 10), the        *)
(* resolution of the CSV format.  Node and column indices are 0-based as   *)
(* in the source; TLA+ sequences are 1-based, so m[i, j] of the source is  *)
(* rows[i+1][j+1] here.                                                    *)
(***************************************************************************)
EXTENDS Integers, Sequences, FiniteSets, TLC

VARIABLES
    csv,            \* the input file: rows of tokens
    matrix,         \* the loaded array: [rows, ndim]
    pc,             \* the position of the running script or harness
    n,              \* node count (matrix.shape[0])
    adj_list,       \* defaultdict(list): node -> sequence of targets
    total_edges,    \* analyze_dag_structure: count of positive entries
    self_loops,     \* analyze_dag_structure: self-loop count
    sources,        \* analyze_dag_structure: nodes without incoming edge
    sinks,          \* analyze_dag_structure: nodes without outgoing edge
    dfs,            \* the frame of has_cycle_dfs (colours, recursion stack)
    kahn,           \* the frame of topological_sort_kahn
    has_cycle,      \* result of has_cycle_dfs
    topo_order,     \* first result of topological_sort_kahn
    is_dag,         \* second result of topological_sort_kahn
    is_valid_dag,   \* return value of analyze_dag_structure
    violations,     \* verify_node_ordering: recorded (source, target, weight)
    ordering_valid, \* return value of verify_node_ordering
    report,         \* the lines of the final verification section
    error,          \* the exception that ended the script, "" if none
    exit_status,    \* process exit status once the script has ended
    gen             \* a generator script: its dag_matrix and pre-save counts

vars == <<csv, matrix, pc, n, adj_list, total_edges, self_loops, sources, sinks,
          dfs, kahn, has_cycle, topo_order, is_dag, is_valid_dag, violations,
          ordering_valid, report, error, exit_status, gen>>

\* ------------------------------------------------------------------ bounds
MaxRows == 3        \* script runs: matrices of 0..MaxRows rows
MaxWeights == 3     \* script runs: at most MaxWeights entries of 0.5
MaxN == 4           \* direct calls: node counts 0..MaxN
MaxEdges == 4       \* direct calls: at most MaxEdges distinct edges

\* ------------------------------------------------------- numpy array access
\* matrix.shape[0]
Shape0(m) == Len(m.rows)

\* matrix.shape[1]; defined only for a two-dimensional array
Shape1(m) == IF Len(m.rows) = 0 THEN 0 ELSE Len(m.rows[1])

\* matrix[i, j]
At(m, i, j) == m.rows[i + 1][j + 1]

\* ------------------------------------------------------ defaultdict access
\* The value adj_list[k] evaluates to.
Lookup(adj, k) == IF k \in DOMAIN adj THEN adj[k] ELSE <<>>

\* The dictionary after evaluating adj_list[k]: a missing key is inserted
\* with an empty list.
Touch(adj, k) == IF k \in DOMAIN adj THEN adj ELSE adj @@ (k :> <<>>)

RECURSIVE TouchAll(_, _)
TouchAll(adj, k) == IF k <= 0 THEN adj ELSE Touch(TouchAll(adj, k - 1), k - 1)

\* ------------------------------------------------- matrix_to_adjacency_list
\* Variant: the loop over the columns starts at column 0.
RECURSIVE TargetsWithPrior(_, _, _)
TargetsWithPrior(m, i, j) ==
    IF j < 0 THEN <<>>
    ELSE LET prev == TargetsWithPrior(m, i, j - 1)
         IN  IF At(m, i, j) > 0 THEN Append(prev, j - 1) ELSE prev

\* The targets appended for row i by the inner loop over columns 1..j.
RECURSIVE TargetsUpTo(_, _, _)
TargetsUpTo(m, i, j) ==
    IF j < 1 THEN <<>>
    ELSE LET prev == TargetsUpTo(m, i, j - 1)
         IN  IF At(m, i, j) > 0 THEN Append(prev, j - 1) ELSE prev

RowTargets(m, i) == TargetsUpTo(m, i, Shape1(m) - 1)

\* Only rows with at least one positive entry get a key.
matrix_to_adjacency_list(m) ==
    LET keys == {i \in 0..(Shape0(m) - 1) : RowTargets(m, i) # <<>>}
    IN  [i \in keys |-> RowTargets(m, i)]

\* ------------------------------------------------------------ has_cycle_dfs
White == 0
Gray == 1
Black == 2

\* The frame at entry: color = [0] * n, the root loop at i = 0, no call of
\* the inner dfs active.  stack holds one record per active call of dfs:
\* the node and the 1-based position of the next neighbour to try.
DfsInit(adj, nn) ==
    [adj |-> adj, n |-> nn, color |-> [v \in 0..(nn - 1) |-> White],
     stack |-> <<>>, i |-> 0, ret |-> "none"]

\* Variant: any node seen before counts as a back edge (two colours).
DfsCallBlackIsCycle(d, node) ==
    IF d.color[node] # White THEN [d EXCEPT !.ret = "true", !.stack = <<>>]
    ELSE [d EXCEPT !.color[node] = Gray,
                   !.adj = Touch(d.adj, node),
                   !.stack = Append(d.stack, [node |-> node, k |-> 1])]

\* Variant: a Gray node is treated like a Black one (no back-edge test).
DfsCallGrayIgnored(d, node) ==
    IF d.color[node] # White THEN d
    ELSE [d EXCEPT !.color[node] = Gray,
                   !.adj = Touch(d.adj, node),
                   !.stack = Append(d.stack, [node |-> node, k |-> 1])]

\* dfs(node) up to the start of its loop: a Gray node returns True through
\* every enclosing call (each caller returns True at once), a Black node
\* returns False to the caller, a White node turns Gray and begins its loop
\* over adj_list[node], which inserts the key if it is missing.
DfsCall(d, node) ==
    IF d.color[node] = Gray THEN [d EXCEPT !.ret = "true", !.stack = <<>>]
    ELSE IF d.color[node] = Black THEN d
    ELSE [d EXCEPT !.color[node] = Gray,
                   !.adj = Touch(d.adj, node),
                   !.stack = Append(d.stack, [node |-> node, k |-> 1])]

\* Variant: a node is unmarked when its call returns, so that only the
\* current path stays marked.
DfsFrameStepUnmark(d) ==
    LET top == d.stack[Len(d.stack)]
        nbrs == Lookup(d.adj, top.node)
    IN  IF top.k > Len(nbrs)
        THEN [d EXCEPT !.color[top.node] = White,
                       !.stack = SubSeq(d.stack, 1, Len(d.stack) - 1)]
        ELSE LET nb == nbrs[top.k]
                 d1 == [d EXCEPT !.stack[Len(d.stack)].k = top.k + 1]
             IN  IF nb < d.n THEN DfsCall(d1, nb) ELSE d1

\* Variant: the position in the neighbour list moves on only past a White
\* neighbour.
DfsFrameStepStuck(d) ==
    LET top == d.stack[Len(d.stack)]
        nbrs == Lookup(d.adj, top.node)
    IN  IF top.k > Len(nbrs)
        THEN [d EXCEPT !.color[top.node] = Black,
                       !.stack = SubSeq(d.stack, 1, Len(d.stack) - 1)]
        ELSE LET nb == nbrs[top.k]
                 d1 == [d EXCEPT !.stack[Len(d.stack)].k = top.k + 1]
             IN  IF nb < d.n
                 THEN (IF d.color[nb] = Black THEN d ELSE DfsCall(d1, nb))
                 ELSE d1

\* One step of the innermost active call: try the next neighbour, or turn
\* the node Black and return False when the neighbours are exhausted.
DfsFrameStep(d) ==
    LET top == d.stack[Len(d.stack)]
        nbrs == Lookup(d.adj, top.node)
    IN  IF top.k > Len(nbrs)
        THEN [d EXCEPT !.color[top.node] = Black,
                       !.stack = SubSeq(d.stack, 1, Len(d.stack) - 1)]
        ELSE LET nb == nbrs[top.k]
                 d1 == [d EXCEPT !.stack[Len(d.stack)].k = top.k + 1]
             IN  IF nb < d.n THEN DfsCall(d1, nb) ELSE d1

\* Variant: the traversal is started from node 0 only.
DfsRootStepFirstOnly(d) ==
    IF d.i >= d.n \/ d.i >= 1 THEN [d EXCEPT !.ret = "false"]
    ELSE LET d1 == [d EXCEPT !.i = d.i + 1]
         IN  IF d.color[d.i] = White
             THEN [d1 EXCEPT !.color[d.i] = Gray,
                             !.adj = Touch(d.adj, d.i),
                             !.stack = Append(d.stack, [node |-> d.i, k |-> 1])]
             ELSE d1

\* Variant: the root loop stops one node short, for i in range(n - 1).
DfsRootStepSkipsLast(d) ==
    IF d.i >= d.n - 1 THEN [d EXCEPT !.ret = "false"]
    ELSE LET d1 == [d EXCEPT !.i = d.i + 1]
         IN  IF d.color[d.i] = White THEN DfsCall(d1, d.i) ELSE d1

\* One step of the root loop: for i in range(n): if color[i] == 0: dfs(i).
DfsRootStep(d) ==
    IF d.i >= d.n THEN [d EXCEPT !.ret = "false"]
    ELSE LET d1 == [d EXCEPT !.i = d.i + 1]
         IN  IF d.color[d.i] = White THEN DfsCall(d1, d.i) ELSE d1

DfsStep(d) ==
    IF d.stack # <<>> THEN DfsFrameStep(d) ELSE DfsRootStep(d)

RECURSIVE DfsRun(_)
DfsRun(d) == IF d.ret # "none" THEN d ELSE DfsRun(DfsStep(d))

\* The frame in which has_cycle_dfs(adj_list, n) returns.
has_cycle_dfs(adj, nn) == DfsRun(DfsInit(adj, nn))

\* ---------------------------------------------------- topological_sort_kahn
Occurrences(seq, v) == Cardinality({k \in 1..Len(seq) : seq[k] = v})

\* in_degree[v] after the loop over the dictionary: one increment for every
\* entry v < n of every list.
RECURSIVE InDegreeOver(_, _, _)
InDegreeOver(adj, keys, v) ==
    IF keys = {} THEN 0
    ELSE LET k == CHOOSE x \in keys : TRUE
         IN  Occurrences(adj[k], v) + InDegreeOver(adj, keys \ {k}, v)

\* Variant: a predecessor is counted once however often it lists the node.
InDegreesDistinct(adj, nn) ==
    [v \in 0..(nn - 1) |->
        Cardinality({u \in DOMAIN adj : \E k \in 1..Len(adj[u]) : adj[u][k] = v})]

\* Variant: the count is kept for the node owning the list, not for the
\* neighbour found in it.
InDegreesOfSources(adj, nn) == [v \in 0..(nn - 1) |-> Len(Lookup(adj, v))]

InDegrees(adj, nn) == [v \in 0..(nn - 1) |-> InDegreeOver(adj, DOMAIN adj, v)]

\* Variant: only the first node of in-degree zero seeds the queue.
RECURSIVE ZeroDegreeFirstOnly(_, _)
ZeroDegreeFirstOnly(deg, k) ==
    IF k <= 0 THEN <<>>
    ELSE LET prev == ZeroDegreeFirstOnly(deg, k - 1)
         IN  IF prev # <<>> THEN prev
             ELSE IF deg[k - 1] = 0 THEN <<k - 1>> ELSE <<>>

\* [i for i in range(n) if deg[i] == 0], in increasing order of i.
RECURSIVE ZeroDegreeUpTo(_, _)
ZeroDegreeUpTo(deg, k) ==
    IF k <= 0 THEN <<>>
    ELSE LET prev == ZeroDegreeUpTo(deg, k - 1)
         IN  IF deg[k - 1] = 0 THEN Append(prev, k - 1) ELSE prev

KahnInit(adj, nn) ==
    [adj |-> adj, n |-> nn, in_degree |-> InDegrees(adj, nn),
     queue |-> ZeroDegreeUpTo(InDegrees(adj, nn), nn),
     topo_order |-> <<>>, cur |-> <<>>, done |-> FALSE]

\* Variant: the queue is popped from its right end.
KahnDequeueRight(q) ==
    IF q.queue = <<>> THEN [q EXCEPT !.done = TRUE]
    ELSE LET node == q.queue[Len(q.queue)]
         IN  [q EXCEPT !.queue = SubSeq(q.queue, 1, Len(q.queue) - 1),
                       !.topo_order = Append(q.topo_order, node),
                       !.adj = Touch(q.adj, node),
                       !.cur = <<[node |-> node, k |-> 1]>>]

\* while queue: popleft, append to topo_order, start the loop over the
\* node's successors; an empty queue ends the function.
KahnDequeue(q) ==
    IF q.queue = <<>> THEN [q EXCEPT !.done = TRUE]
    ELSE LET node == Head(q.queue)
         IN  [q EXCEPT !.queue = Tail(q.queue),
                       !.topo_order = Append(q.topo_order, node),
                       !.adj = Touch(q.adj, node),
                       !.cur = <<[node |-> node, k |-> 1]>>]

\* Variant: a successor is enqueued one decrement early as well.
KahnNeighborEarly(q) ==
    LET c == q.cur[1]
        nbrs == Lookup(q.adj, c.node)
    IN  IF c.k > Len(nbrs) THEN [q EXCEPT !.cur = <<>>]
        ELSE LET nb == nbrs[c.k]
                 q1 == [q EXCEPT !.cur[1].k = c.k + 1]
             IN  IF nb < q.n
                 THEN LET deg == q.in_degree[nb] - 1
                      IN  [q1 EXCEPT !.in_degree[nb] = deg,
                                     !.queue = IF deg \in {0, 1} THEN Append(q.queue, nb)
                                               ELSE q.queue]
                 ELSE q1

\* Variant: the successor list is consumed while it is traversed.
KahnNeighborConsuming(q) ==
    LET c == q.cur[1]
        nbrs == Lookup(q.adj, c.node)
    IN  IF nbrs = <<>> THEN [q EXCEPT !.cur = <<>>]
        ELSE LET nb == Head(nbrs)
                 q1 == [q EXCEPT !.adj[c.node] = Tail(nbrs)]
             IN  IF nb < q.n
                 THEN LET deg == q.in_degree[nb] - 1
                      IN  [q1 EXCEPT !.in_degree[nb] = deg,
                                     !.queue = IF deg = 0 THEN Append(q.queue, nb)
                                               ELSE q.queue]
                 ELSE q1

\* One successor of the dequeued node: decrement, enqueue on reaching zero.
KahnNeighbor(q) ==
    LET c == q.cur[1]
        nbrs == Lookup(q.adj, c.node)
    IN  IF c.k > Len(nbrs) THEN [q EXCEPT !.cur = <<>>]
        ELSE LET nb == nbrs[c.k]
                 q1 == [q EXCEPT !.cur[1].k = c.k + 1]
             IN  IF nb < q.n
                 THEN LET deg == q.in_degree[nb] - 1
                      IN  [q1 EXCEPT !.in_degree[nb] = deg,
                                     !.queue = IF deg = 0 THEN Append(q.queue, nb)
                                               ELSE q.queue]
                 ELSE q1

KahnStep(q) == IF q.cur # <<>> THEN KahnNeighbor(q) ELSE KahnDequeue(q)

RECURSIVE KahnRun(_)
KahnRun(q) == IF q.done THEN q ELSE KahnRun(KahnStep(q))

\* The frame in which topological_sort_kahn(adj_list, n) returns; the
\* function returns (topo_order, len(topo_order) == n).
topological_sort_kahn(adj, nn) == KahnRun(KahnInit(adj, nn))

\* Variant: success is reported whenever the queue ran empty.
KahnIsDagQueueEmpty(q) == q.queue = <<>>

KahnIsDag(q) == Len(q.topo_order) = q.n

\* ---------------------------------------------------- analyze_dag_structure
\* Variant: the diagonal is read without the offset for the prior column.
CountSelfLoopsNoOffset(m) ==
    Cardinality({i \in 0..(Shape0(m) - 1) :
                    i + 1 < Shape1(m) /\ At(m, i, i) > 0})

\* Variant: any nonzero diagonal entry counts.
CountSelfLoopsNonzero(m) ==
    Cardinality({i \in 0..(Shape0(m) - 1) :
                    i + 1 < Shape1(m) /\ At(m, i, i + 1) # 0})

\* total_edges: one increment per entry > 0 in columns 1..shape[1]-1.
CountEdges(m) ==
    Cardinality({c \in (0..(Shape0(m) - 1)) \X (1..(Shape1(m) - 1)) :
                    At(m, c[1], c[2]) > 0})

\* self_loops: one increment per row i with i+1 < shape[1] and m[i,i+1] > 0.
CountSelfLoops(m) ==
    Cardinality({i \in 0..(Shape0(m) - 1) :
                    i + 1 < Shape1(m) /\ At(m, i, i + 1) > 0})

\* sources = [i for i in range(n) if in_degree[i] == 0]
Sources(adj, nn) == ZeroDegreeUpTo(InDegrees(adj, nn), nn)

\* sinks = [i for i in range(n) if len(adj_list[i]) == 0]
RECURSIVE SinksUpTo(_, _)
SinksUpTo(adj, k) ==
    IF k <= 0 THEN <<>>
    ELSE LET prev == SinksUpTo(adj, k - 1)
         IN  IF Len(Lookup(adj, k - 1)) = 0 THEN Append(prev, k - 1) ELSE prev

\* ----------------------------------------------------- verify_node_ordering
\* Variant: only strictly backward edges are recorded.
RECURSIVE RowViolationsStrict(_, _, _)
RowViolationsStrict(m, i, j) ==
    IF j < 1 THEN <<>>
    ELSE LET prev == RowViolationsStrict(m, i, j - 1)
         IN  IF At(m, i, j) > 0 /\ j - 1 < i
             THEN Append(prev, <<i, j - 1, At(m, i, j)>>)
             ELSE prev

\* Variant: the column index is recorded instead of the target node.
RECURSIVE RowViolationsRawColumn(_, _, _)
RowViolationsRawColumn(m, i, j) ==
    IF j < 1 THEN <<>>
    ELSE LET prev == RowViolationsRawColumn(m, i, j - 1)
         IN  IF At(m, i, j) > 0 /\ j - 1 <= i
             THEN Append(prev, <<i, j, At(m, i, j)>>)
             ELSE prev

\* The violations appended for row i by the inner loop over columns 1..j.
RECURSIVE RowViolationsUpTo(_, _, _)
RowViolationsUpTo(m, i, j) ==
    IF j < 1 THEN <<>>
    ELSE LET prev == RowViolationsUpTo(m, i, j - 1)
         IN  IF At(m, i, j) > 0 /\ j - 1 <= i
             THEN Append(prev, <<i, j - 1, At(m, i, j)>>)
             ELSE prev

\* The violations list after the outer loop has run over rows 0..k-1.
RECURSIVE ViolationsUpTo(_, _)
ViolationsUpTo(m, k) ==
    IF k <= 0 THEN <<>>
    ELSE ViolationsUpTo(m, k - 1) \o RowViolationsUpTo(m, k - 1, Shape1(m) - 1)

verify_node_ordering(m) == ViolationsUpTo(m, Shape0(m))

\* ------------------------------------------------------------- final report
\* Variant: any failure is reported as a cycle.
FinalReportConflated(valid, ordered) ==
    IF valid /\ ordered
    THEN <<"NETWORK IS A VALID DAG!", "No cycles detected",
           "Proper node ordering", "Ready for DAG algorithms">>
    ELSE <<"NETWORK HAS ISSUES:", "Contains cycles">>
         \o (IF ~ordered THEN <<"Improper node ordering">> ELSE <<>>)
         \o <<"Network needs fixing!">>

FinalReport(valid, ordered) ==
    IF valid /\ ordered
    THEN <<"NETWORK IS A VALID DAG!", "No cycles detected",
           "Proper node ordering", "Ready for DAG algorithms">>
    ELSE <<"NETWORK HAS ISSUES:">>
         \o (IF ~valid THEN <<"Contains cycles">> ELSE <<>>)
         \o (IF ~ordered THEN <<"Improper node ordering">> ELSE <<>>)
         \o <<"Network needs fixing!">>

\* Exit status of the interpreter: 0 when the script runs off its end,
\* 1 when an exception is not caught.  The script never calls sys.exit.
ExitNormal == 0
ExitUncaught == 1

\* ---------------------------------------------------------- load_dag_matrix
\* A token of the file: a decimal literal float() accepts (its value in
\* tenths), or text float() rejects.
Num(v) == [num |-> TRUE, val |-> v]
Text == [num |-> FALSE, val |-> 0]

HasBadToken(file) ==
    \E r \in 1..Len(file) : \E c \in 1..Len(file[r]) : ~file[r][c].num

\* data: [float(x) for x in row] for every row
Floats(file) == [r \in 1..Len(file) |-> [c \in 1..Len(file[r]) |-> file[r][c].val]]

IsRagged(data) == \E r \in 1..Len(data) : Len(data[r]) # Len(data[1])

\* np.array(data) of equally long rows is two-dimensional; of no rows it
\* has shape (0,).
NpArray(data) == [rows |-> data, ndim |-> IF Len(data) = 0 THEN 1 ELSE 2]

\* np.array(data) of rows of different lengths, where numpy still builds it:
\* a one-dimensional array of row objects.
NpObjectArray(data) == [rows |-> data, ndim |-> 1]

NoMatrix == [rows |-> <<>>, ndim |-> 0]

\* No generator script is part of the run.
NoGen == [dag_matrix |-> NoMatrix, self_loops |-> 0, violations |-> 0]

\* ------------------------------------------------------------------- inputs
\* The subsets of S with at most k elements.
RECURSIVE UpTo(_, _)
UpTo(S, k) ==
    IF k <= 0 THEN {{}}
    ELSE LET smaller == UpTo(S, k - 1)
         IN  smaller \cup {T \cup {x} : T \in smaller, x \in S}

EdgeCells(nn) == (0..(nn - 1)) \X (1..nn)
AllCells(nn) == (0..(nn - 1)) \X (0..nn)

\* At most one entry that departs from the 0 / 0.5 pattern: a negative
\* value or a 1.0, in the prior column or in an edge column.
Overrides(nn) ==
    {<<>>} \cup {<<[cell |-> c, val |-> v]>> : c \in AllCells(nn), v \in {-5, 10}}

\* The nn x (nn+1) file with 0.5 at the cells of P, the override applied,
\* and 0.0 elsewhere.
MkCsv(nn, P, ov) ==
    [r \in 1..nn |->
        [c \in 1..(nn + 1) |->
            IF ov # <<>> /\ ov[1].cell = <<r - 1, c - 1>> THEN Num(ov[1].val)
            ELSE IF <<r - 1, c - 1>> \in P THEN Num(5)
            ELSE Num(0)]]

\* The file of rows x cols with prior 1.0 at node 0 and weight w on the
\* given edges (source, target).
EdgeCsv(rows, cols, E, w) ==
    [r \in 1..rows |->
        [c \in 1..cols |->
            IF c = 1 THEN Num(IF r = 1 THEN 10 ELSE 0)
            ELSE IF <<r - 1, c - 2>> \in E THEN Num(w)
            ELSE Num(0)]]

ChainEdges == {<<0, 1>>, <<1, 2>>, <<2, 3>>, <<3, 4>>}
RingEdges == ChainEdges \cup {<<4, 0>>}
DiamondEdges == {<<0, 1>>, <<0, 2>>, <<1, 3>>, <<2, 3>>}

ChainCsv == EdgeCsv(5, 6, ChainEdges, 5)
RingCsv == EdgeCsv(5, 6, RingEdges, 5)
DiamondCsv == EdgeCsv(4, 5, DiamondEdges, 5)
\* Rectangular files that are not N x (N+1).
WideCsv == EdgeCsv(2, 4, {<<0, 1>>, <<1, 2>>, <<0, 2>>}, 5)
NarrowCsv == EdgeCsv(2, 2, {<<0, 0>>, <<1, 0>>}, 5)
\* Malformed files.
BadTokenCsv == <<<<Num(10), Num(0), Num(5)>>, <<Num(0), Text, Num(0)>>>>
RaggedCsv == <<<<Num(10), Num(0), Num(5)>>, <<Num(0), Num(0)>>>>

FixtureCsvs ==
    {ChainCsv, RingCsv, DiamondCsv, WideCsv, NarrowCsv, BadTokenCsv, RaggedCsv}

\* A hand-built adjacency list for the edge set E: one key per node with
\* an outgoing edge, its targets in increasing order ("asc"), in decreasing
\* order ("desc"), or in increasing order with the first target listed a
\* second time at the end ("dup").
RECURSIVE Sorted(_, _)
Sorted(S, desc) ==
    IF S = {} THEN <<>>
    ELSE LET x == CHOOSE y \in S : \A z \in S : IF desc THEN z <= y ELSE y <= z
         IN  <<x>> \o Sorted(S \ {x}, desc)

ListShapes == {"asc", "desc", "dup"}

AdjOf(E, shape) ==
    [u \in {e[1] : e \in E} |->
        LET targets == Sorted({e[2] : e \in {f \in E : f[1] = u}}, shape = "desc")
        IN  IF shape = "dup" THEN Append(targets, targets[1]) ELSE targets]

\* ------------------------------------------------------------ initial state
Idle ==
    /\ matrix = NoMatrix
    /\ total_edges = 0
    /\ self_loops = 0
    /\ sources = <<>>
    /\ sinks = <<>>
    /\ has_cycle = FALSE
    /\ topo_order = <<>>
    /\ is_dag = FALSE
    /\ is_valid_dag = FALSE
    /\ violations = <<>>
    /\ ordering_valid = FALSE
    /\ report = <<>>
    /\ error = ""
    /\ exit_status = ExitNormal

\* The script is started on some file.
Init ==
    /\ \/ \E nn \in 0..MaxRows : \E P \in UpTo(EdgeCells(nn), MaxWeights) :
            \E ov \in Overrides(nn) : csv = MkCsv(nn, P, ov)
       \/ csv \in FixtureCsvs
    /\ pc = "start"
    /\ n = 0
    /\ adj_list = <<>>
    /\ dfs = DfsInit(<<>>, 0)
    /\ kahn = KahnInit(<<>>, 0)
    /\ gen = NoGen
    /\ Idle

\* ------------------------------------------------------- the script's steps
\* An exception nothing catches ends the script.
Raise(e) ==
    /\ pc' = "crashed"
    /\ error' = e
    /\ exit_status' = ExitUncaught

\* matrix = load_dag_matrix(...): float() raises on the first bad token;
\* np.array of ragged rows raises in numpy releases that refuse ragged
\* input.
LoadFails ==
    /\ pc = "start"
    /\ \/ HasBadToken(csv)
       \/ ~HasBadToken(csv) /\ IsRagged(Floats(csv))
    /\ Raise("ValueError")
    /\ UNCHANGED <<gen, csv, matrix, n, adj_list, total_edges, self_loops, sources,
                   sinks, dfs, kahn, has_cycle, topo_order, is_dag, is_valid_dag,
                   violations, ordering_valid, report>>

\* matrix = load_dag_matrix(...) returns an array; of ragged rows, in numpy
\* releases that accept them, a one-dimensional array of row objects.
LoadReturns ==
    /\ pc = "start"
    /\ ~HasBadToken(csv)
    /\ matrix' = IF IsRagged(Floats(csv)) THEN NpObjectArray(Floats(csv))
                  ELSE NpArray(Floats(csv))
    /\ pc' = "analyze"
    /\ UNCHANGED <<gen, csv, n, adj_list, total_edges, self_loops, sources, sinks, dfs,
                   kahn, has_cycle, topo_order, is_dag, is_valid_dag, violations,
                   ordering_valid, report, error, exit_status>>

\* analyze_dag_structure: n = matrix.shape[0];
\* adj_list = matrix_to_adjacency_list(matrix).  matrix.shape[1] is read in
\* the first iteration over the rows and does not exist for a
\* one-dimensional array.
BuildAdjacency ==
    /\ pc = "analyze"
    /\ n' = Shape0(matrix)
    /\ IF matrix.ndim = 1 /\ Shape0(matrix) > 0
       THEN /\ Raise("IndexError")
            /\ UNCHANGED adj_list
       ELSE /\ adj_list' = matrix_to_adjacency_list(matrix)
            /\ pc' = "density"
            /\ UNCHANGED <<error, exit_status>>
    /\ UNCHANGED <<gen, csv, matrix, total_edges, self_loops, sources, sinks, dfs, kahn,
                   has_cycle, topo_order, is_dag, is_valid_dag, violations,
                   ordering_valid, report>>

\* The edge count, then the density total_edges / (n * (n-1)), which
\* divides by zero for n = 0 and n = 1.
Density ==
    /\ pc = "density"
    /\ total_edges' = CountEdges(matrix)
    /\ IF n * (n - 1) = 0
       THEN Raise("ZeroDivisionError")
       ELSE /\ pc' = "self_loops"
            /\ UNCHANGED <<error, exit_status>>
    /\ UNCHANGED <<gen, csv, matrix, n, adj_list, self_loops, sources, sinks, dfs, kahn,
                   has_cycle, topo_order, is_dag, is_valid_dag, violations,
                   ordering_valid, report>>

SelfLoopScan ==
    /\ pc = "self_loops"
    /\ self_loops' = CountSelfLoops(matrix)
    /\ pc' = "sources_sinks"
    /\ UNCHANGED <<gen, csv, matrix, n, adj_list, total_edges, sources, sinks, dfs, kahn,
                   has_cycle, topo_order, is_dag, is_valid_dag, violations,
                   ordering_valid, report, error, exit_status>>

\* The sinks comprehension reads adj_list[i] for every i in range(n), which
\* inserts every missing key.
SourcesSinks ==
    /\ pc = "sources_sinks"
    /\ sources' = Sources(adj_list, n)
    /\ sinks' = SinksUpTo(adj_list, n)
    /\ adj_list' = TouchAll(adj_list, n)
    /\ pc' = "cycle_detection"
    /\ UNCHANGED <<gen, csv, matrix, n, total_edges, self_loops, dfs, kahn, has_cycle,
                   topo_order, is_dag, is_valid_dag, violations, ordering_valid,
                   report, error, exit_status>>

\* has_cycle = has_cycle_dfs(adj_list, n)
CycleDetection ==
    /\ pc = "cycle_detection"
    /\ dfs' = has_cycle_dfs(adj_list, n)
    /\ has_cycle' = (dfs'.ret = "true")
    /\ adj_list' = dfs'.adj
    /\ pc' = "topological_sort"
    /\ UNCHANGED <<gen, csv, matrix, n, total_edges, self_loops, sources, sinks, kahn,
                   topo_order, is_dag, is_valid_dag, violations, ordering_valid,
                   report, error, exit_status>>

\* topo_order, is_dag = topological_sort_kahn(adj_list, n); the function
\* returns is_dag.
TopologicalSort ==
    /\ pc = "topological_sort"
    /\ kahn' = topological_sort_kahn(adj_list, n)
    /\ topo_order' = kahn'.topo_order
    /\ is_dag' = KahnIsDag(kahn')
    /\ adj_list' = kahn'.adj
    /\ is_valid_dag' = is_dag'
    /\ pc' = "ordering"
    /\ UNCHANGED <<gen, csv, matrix, n, total_edges, self_loops, sources, sinks, dfs,
                   has_cycle, violations, ordering_valid, report, error,
                   exit_status>>

\* ordering_valid = verify_node_ordering(matrix)
VerifyOrdering ==
    /\ pc = "ordering"
    /\ violations' = verify_node_ordering(matrix)
    /\ ordering_valid' = (violations' = <<>>)
    /\ pc' = "final"
    /\ UNCHANGED <<gen, csv, matrix, n, adj_list, total_edges, self_loops, sources,
                   sinks, dfs, kahn, has_cycle, topo_order, is_dag, is_valid_dag,
                   report, error, exit_status>>

\* The final verification section is printed and the script runs off its
\* end.
FinalVerification ==
    /\ pc = "final"
    /\ report' = FinalReport(is_valid_dag, ordering_valid)
    /\ pc' = "exited"
    /\ exit_status' = ExitNormal
    /\ UNCHANGED <<gen, csv, matrix, n, adj_list, total_edges, self_loops, sources,
                   sinks, dfs, kahn, has_cycle, topo_order, is_dag, is_valid_dag,
                   violations, ordering_valid, error>>

Next ==
    \/ LoadFails
    \/ LoadReturns
    \/ BuildAdjacency
    \/ Density
    \/ SelfLoopScan
    \/ SourcesSinks
    \/ CycleDetection
    \/ TopologicalSort
    \/ VerifyOrdering
    \/ FinalVerification

Spec == Init /\ [][Next]_vars

\* ------------------------------------------------------------------------
\* The two graph functions called directly, as analyze_dag_structure calls
\* them (has_cycle_dfs, then topological_sort_kahn, on one shared
\* adjacency list), one step of their loops at a time.
AlgoInit ==
    /\ \/ \E nn \in 0..MaxN :
            \E E \in UpTo((0..(nn - 1)) \X (0..(nn - 1)), MaxEdges) :
            \E shape \in ListShapes :
                /\ n = nn
                /\ adj_list = AdjOf(E, shape)
       \/ /\ n = 4
          /\ adj_list = AdjOf(DiamondEdges, "asc")
       \/ /\ n = 5
          /\ adj_list \in {AdjOf(ChainEdges, "asc"), AdjOf(RingEdges, "asc")}
    /\ csv = <<>>
    /\ pc = "has_cycle_dfs"
    /\ dfs = DfsInit(adj_list, n)
    /\ kahn = KahnInit(<<>>, 0)
    /\ gen = NoGen
    /\ Idle

DfsAdvance ==
    /\ pc = "has_cycle_dfs"
    /\ dfs.ret = "none"
    /\ dfs' = DfsStep(dfs)
    /\ UNCHANGED <<gen, csv, matrix, pc, n, adj_list, total_edges, self_loops, sources,
                   sinks, kahn, has_cycle, topo_order, is_dag, is_valid_dag,
                   violations, ordering_valid, report, error, exit_status>>

\* has_cycle_dfs returns; topological_sort_kahn is entered and computes the
\* in-degrees and the initial queue.
DfsReturn ==
    /\ pc = "has_cycle_dfs"
    /\ dfs.ret # "none"
    /\ has_cycle' = (dfs.ret = "true")
    /\ adj_list' = dfs.adj
    /\ kahn' = KahnInit(dfs.adj, n)
    /\ pc' = "topological_sort_kahn"
    /\ UNCHANGED <<gen, csv, matrix, n, total_edges, self_loops, sources, sinks, dfs,
                   topo_order, is_dag, is_valid_dag, violations, ordering_valid,
                   report, error, exit_status>>

KahnAdvance ==
    /\ pc = "topological_sort_kahn"
    /\ ~kahn.done
    /\ kahn' = KahnStep(kahn)
    /\ UNCHANGED <<gen, csv, matrix, pc, n, adj_list, total_edges, self_loops, sources,
                   sinks, dfs, has_cycle, topo_order, is_dag, is_valid_dag,
                   violations, ordering_valid, report, error, exit_status>>

KahnReturn ==
    /\ pc = "topological_sort_kahn"
    /\ kahn.done
    /\ topo_order' = kahn.topo_order
    /\ is_dag' = KahnIsDag(kahn)
    /\ adj_list' = kahn.adj
    /\ pc' = "returned"
    /\ UNCHANGED <<gen, csv, matrix, n, total_edges, self_loops, sources, sinks, dfs,
                   kahn, has_cycle, is_valid_dag, violations, ordering_valid,
                   report, error, exit_status>>

AlgoNext ==
    \/ DfsAdvance
    \/ DfsReturn
    \/ KahnAdvance
    \/ KahnReturn

AlgoSpec == AlgoInit /\ [][AlgoNext]_vars

\* ------------------------------------------------------------------------
\* Graph notions the properties are stated in.
EdgesOf(adj) == UNION {{<<u, adj[u][k]>> : k \in 1..Len(adj[u])} : u \in DOMAIN adj}

Successors(adj, S) == {e[2] : e \in {f \in EdgesOf(adj) : f[1] \in S}}

RECURSIVE Closure(_, _)
Closure(adj, S) ==
    LET T == S \cup Successors(adj, S)
    IN  IF T = S THEN S ELSE Closure(adj, T)

\* The nodes reachable from v along one or more edges.
ReachPlus(adj, v) == Closure(adj, Successors(adj, {v}))

OnCycle(adj, v) == v \in ReachPlus(adj, v)

HasDirectedCycle(adj, nn) == \E v \in 0..(nn - 1) : OnCycle(adj, v)

Elements(seq) == {seq[k] : k \in 1..Len(seq)}

NoDuplicates(seq) == \A a, b \in 1..Len(seq) : seq[a] = seq[b] => a = b

Position(seq, v) == CHOOSE k \in 1..Len(seq) : seq[k] = v

StrictlyIncreasing(seq) == \A a, b \in 1..Len(seq) : a < b => seq[a] < seq[b]

\* C1: once both functions have returned on the same adjacency list,
\* has_cycle_dfs returned True exactly when topological_sort_kahn returned
\* an ordering shorter than n, i.e. returned the boolean False.
C1_CrossCheck ==
    pc = "returned" =>
        /\ has_cycle <=> Len(topo_order) < n
        /\ has_cycle <=> ~is_dag

\* Both functions have returned on a graph with a cycle of which Kahn's
\* algorithm still emitted some nodes.
C1_Witness ==
    /\ pc = "returned"
    /\ has_cycle
    /\ ~is_dag
    /\ Len(topo_order) > 0

\* C2: has_cycle_dfs returns True exactly when some node reaches itself
\* along one or more edges.
C2_DfsFindsExactlyCycles ==
    pc = "returned" => (has_cycle <=> HasDirectedCycle(adj_list, n))

\* The diamond 0->1, 0->2, 1->3, 2->3: node 3 is reached a second time
\* when it is already Black, and the verdict is False.
C2_Witness ==
    /\ pc = "returned"
    /\ n = 4
    /\ EdgesOf(adj_list) = DiamondEdges
    /\ ~has_cycle

\* C3: when topological_sort_kahn returns True its ordering is a
\* permutation of 0..n-1 with every edge pointing from an earlier to a later
\* position; in every case no node occurs twice in the ordering.
C3_KahnOrderIsTopological ==
    pc = "returned" =>
        /\ NoDuplicates(topo_order)
        /\ is_dag =>
              /\ Len(topo_order) = n
              /\ Elements(topo_order) = 0..(n - 1)
              /\ \A e \in EdgesOf(adj_list) :
                    Position(topo_order, e[1]) < Position(topo_order, e[2])

\* A complete ordering of a graph with at least three edges, one of them
\* pointing from a higher to a lower index.
C3_Witness ==
    /\ pc = "returned"
    /\ is_dag
    /\ Cardinality(EdgesOf(adj_list)) >= 3
    /\ \E e \in EdgesOf(adj_list) : e[2] < e[1]

\* C4: the boolean of topological_sort_kahn is True iff the ordering has
\* length n; when it is shorter, every unemitted node has an incoming edge
\* from an unemitted node, so the unemitted nodes contain a cycle, and every
\* node on a cycle is unemitted.
C4_KahnRemainderIsCyclic ==
    pc = "returned" =>
        LET left == (0..(n - 1)) \ Elements(topo_order)
        IN  /\ is_dag <=> Len(topo_order) = n
            /\ Len(topo_order) < n =>
                  /\ \A v \in left : \E u \in left : <<u, v>> \in EdgesOf(adj_list)
                  /\ \E v \in left : OnCycle(adj_list, v)
            /\ \A v \in 0..(n - 1) : OnCycle(adj_list, v) => v \in left

\* An incomplete ordering: some nodes emitted, and an unemitted node that
\* is not itself on a cycle (it only hangs below one).
C4_Witness ==
    /\ pc = "returned"
    /\ ~is_dag
    /\ Len(topo_order) > 0
    /\ \E v \in (0..(n - 1)) \ Elements(topo_order) : ~OnCycle(adj_list, v)

\* Where the script stands: the steps whose results are final.
AfterSelfLoopScan ==
    pc \in {"sources_sinks", "cycle_detection", "topological_sort", "ordering",
            "final", "exited"}

AfterOrderingScan == pc \in {"final", "exited"}

\* The loaded matrix has N rows and N+1 columns.
WellShaped == matrix.ndim = 2 /\ Shape1(matrix) = Shape0(matrix) + 1

\* C5: on the five-node chain with prior column [1.0, 0, 0, 0, 0] the run
\* reports 0 self-loops, 0 ordering violations, no cycle, and the
\* topological order [0, 1, 2, 3, 4] with boolean True.
C5_ChainExample ==
    (csv = ChainCsv /\ pc = "exited") =>
        /\ self_loops = 0
        /\ violations = <<>>
        /\ ordering_valid
        /\ ~has_cycle
        /\ topo_order = <<0, 1, 2, 3, 4>>
        /\ is_dag

\* The run on the chain file has reached its end.
C5_Witness ==
    /\ csv = ChainCsv
    /\ pc = "exited"
    /\ At(matrix, 0, 0) = 10
    /\ total_edges = 4

\* C6: on the chain closed by the edge 4->0 the DFS reports a cycle, the
\* topological order is shorter than 5 with boolean False, and the only
\* ordering violation is (4, 0, 0.5).
C6_RingExample ==
    (csv = RingCsv /\ pc = "exited") =>
        /\ has_cycle
        /\ Len(topo_order) < 5
        /\ ~is_dag
        /\ violations = << <<4, 0, 5>> >>

\* The run on the ring file has reached its end.
C6_Witness ==
    /\ csv = RingCsv
    /\ pc = "exited"
    /\ total_edges = 5

\* The 2 x 3 file whose only edge is 1->0.
BackEdgeMatrix == NpArray(Floats(EdgeCsv(2, 3, {<<1, 0>>}, 5)))

\* C7: a matrix without ordering violations is acyclic for both cycle
\* checks; the converse fails on the single edge 1->0, which both checks
\* accept as a DAG while the ordering scan records a violation.
C7_OrderingStricterThanAcyclic ==
    /\ (AfterOrderingScan /\ violations = <<>>) => (~has_cycle /\ is_dag)
    /\ LET adj == matrix_to_adjacency_list(BackEdgeMatrix)
       IN  /\ has_cycle_dfs(adj, 2).ret = "false"
           /\ KahnIsDag(topological_sort_kahn(adj, 2))
           /\ verify_node_ordering(BackEdgeMatrix) # <<>>

\* A finished run on a matrix with several edges and no ordering violation.
C7_Witness ==
    /\ pc = "exited"
    /\ WellShaped
    /\ violations = <<>>
    /\ total_edges >= 3

\* C8: the process exit status is non-zero exactly when the matrix is not a
\* valid DAG.
C8_ExitStatusReflectsVerdict ==
    pc = "exited" => (exit_status # 0 <=> ~is_valid_dag)

\* C9: for a matrix of N rows and N+1 columns, the list the builder leaves
\* for row i is the strictly increasing sequence of the j-1 with
\* 1 <= j <= N and matrix[i][j] > 0; column 0 contributes nothing and the
\* entries are node indices, not weights.
C9_AdjacencyFromMatrix ==
    (pc = "density" /\ WellShaped) =>
        /\ DOMAIN adj_list \subseteq 0..(n - 1)
        /\ \A i \in 0..(n - 1) :
              /\ StrictlyIncreasing(Lookup(adj_list, i))
              /\ Elements(Lookup(adj_list, i)) =
                    {j - 1 : j \in {c \in 1..n : At(matrix, i, c) > 0}}

\* The builder has run on a three-node matrix whose row 0 has prior 1.0 and
\* two edges.
C9_Witness ==
    /\ pc = "density"
    /\ WellShaped
    /\ n = 3
    /\ At(matrix, 0, 0) = 10
    /\ Len(Lookup(adj_list, 0)) = 2

\* The rows of an N x (N+1) matrix that hold a self-loop.
SelfLoopRows == {a \in 0..(Shape0(matrix) - 1) : At(matrix, a, a + 1) > 0}

\* C10: the self-loop count is the number of rows a with a positive entry
\* at column a+1, every such row is recorded exactly once as the violation
\* (a, a, weight), and the self-loop count does not exceed the number of
\* violations.
C10_SelfLoopsCountedAndFlagged ==
    WellShaped =>
        /\ AfterSelfLoopScan => self_loops = Cardinality(SelfLoopRows)
        /\ AfterOrderingScan =>
              /\ \A a \in SelfLoopRows :
                    Occurrences(violations, <<a, a, At(matrix, a, a + 1)>>) = 1
              /\ self_loops <= Len(violations)

\* A finished run on a matrix with a self-loop, a forward edge and a
\* negative diagonal entry.
C10_Witness ==
    /\ pc = "exited"
    /\ WellShaped
    /\ self_loops = 1
    /\ total_edges >= 2
    /\ \E a \in 0..(n - 1) : At(matrix, a, a + 1) < 0

\* The entries of a two-dimensional matrix that are edges whose target is
\* not after their source: (row, column) with column >= 1.
BackwardCells(m) ==
    {c \in (0..(Shape0(m) - 1)) \X (1..(Shape1(m) - 1)) :
        At(m, c[1], c[2]) > 0 /\ c[2] - 1 <= c[1]}

PositiveCells(m) ==
    {c \in (0..(Shape0(m) - 1)) \X (1..(Shape1(m) - 1)) : At(m, c[1], c[2]) > 0}

\* C11: verify_node_ordering records exactly the triples
\* (i, j-1, matrix[i][j]) of the entries with j >= 1, matrix[i][j] > 0 and
\* j-1 <= i, one per entry, and returns True iff there is none; with every
\* edge pointing to a higher index it records nothing and returns True.
C11_OrderingScanExact ==
    (AfterOrderingScan /\ matrix.ndim = 2) =>
        /\ Elements(violations) =
              {<<c[1], c[2] - 1, At(matrix, c[1], c[2])>> : c \in BackwardCells(matrix)}
        /\ Len(violations) = Cardinality(BackwardCells(matrix))
        /\ ordering_valid <=> BackwardCells(matrix) = {}
        /\ (\A c \in PositiveCells(matrix) : c[2] - 1 > c[1]) =>
              (violations = <<>> /\ ordering_valid)

\* The scan has recorded two violations on a matrix that also has a
\* forward edge.
C11_Witness ==
    /\ AfterOrderingScan
    /\ WellShaped
    /\ Len(violations) = 2
    /\ ~ordering_valid
    /\ total_edges = 3

\* Both functions have returned on the adjacency list under test.
BothReturned == pc = "returned"

\* C12: when the only edges are a -> b and b -> a with a # b, has_cycle_dfs
\* returns True and topological_sort_kahn returns every node except a and
\* b, N - 2 nodes in all, with the flag False.
C12_TwoNodeCycle ==
    BothReturned =>
        \A a \in 0..(n - 1) : \A b \in 0..(n - 1) :
            (a # b /\ EdgesOf(adj_list) = {<<a, b>>, <<b, a>>}) =>
                /\ has_cycle
                /\ ~is_dag
                /\ Len(topo_order) = n - 2
                /\ Elements(topo_order) = (0..(n - 1)) \ {a, b}

\* The cycle 3 -> 1 -> 3 among four nodes has been examined.
C12_Witness ==
    /\ BothReturned
    /\ n = 4
    /\ EdgesOf(adj_list) = {<<1, 3>>, <<3, 1>>}
    /\ topo_order = <<0, 2>>

\* C13: on an adjacency list without edges, for any N >= 0, has_cycle_dfs
\* returns False and topological_sort_kahn returns ([0, 1, ..., N-1], True).
C13_NoEdges ==
    (BothReturned /\ EdgesOf(adj_list) = {}) =>
        /\ ~has_cycle
        /\ is_dag
        /\ topo_order = [k \in 1..n |-> k - 1]

\* Three isolated nodes have been examined.
C13_Witness ==
    /\ BothReturned
    /\ n = 3
    /\ EdgesOf(adj_list) = {}
    /\ Len(topo_order) = 3

\* C14: when the only edge is a -> b with a # b, in either index
\* direction, has_cycle_dfs returns False and topological_sort_kahn returns
\* all N nodes with the flag True and a before b.
C14_SingleEdge ==
    BothReturned =>
        \A a \in 0..(n - 1) : \A b \in 0..(n - 1) :
            (a # b /\ EdgesOf(adj_list) = {<<a, b>>}) =>
                /\ ~has_cycle
                /\ is_dag
                /\ Len(topo_order) = n
                /\ Position(topo_order, a) < Position(topo_order, b)

\* The single backward edge 2 -> 0 among three nodes has been examined.
C14_Witness ==
    /\ BothReturned
    /\ n = 3
    /\ EdgesOf(adj_list) = {<<2, 0>>}
    /\ is_dag

\* C15: a run whose matrix loaded as a two-dimensional array performs the
\* self-loop scan, has_cycle_dfs, topological_sort_kahn and
\* verify_node_ordering in that order and ends at the final report: it is
\* never cut short by an exception, whatever the checks find.
C15_LoadedRunReachesReport ==
    matrix.ndim = 2 =>
        /\ pc # "crashed"
        /\ pc = "exited" =>
              /\ self_loops = CountSelfLoops(matrix)
              /\ has_cycle = (dfs.ret = "true")
              /\ is_dag = KahnIsDag(kahn)
              /\ violations = verify_node_ordering(matrix)
              /\ report # <<>>

\* The file is one the loader is required to reject: a token that is not
\* a number, or rows of different lengths.
Malformed == HasBadToken(csv) \/ IsRagged(csv)

\* C16: a file with a non-numeric token or with rows of different lengths
\* makes load_dag_matrix raise, so the run ends there: no matrix is ever
\* loaded from it and matrix_to_adjacency_list and the checks never start.
C16_MalformedFailsInLoader ==
    Malformed =>
        /\ matrix = NoMatrix
        /\ pc \in {"start", "crashed"}
        /\ pc = "crashed" => error = "ValueError"

\* C17: the final report prints "Contains cycles" exactly when the
\* topological sort did not cover all nodes, "Improper node ordering"
\* exactly when the ordering scan recorded a violation, and the valid-DAG
\* verdict exactly when neither holds; the value analyze_dag_structure
\* returned is the topological sort's flag, whatever the self-loop count
\* and the ordering scan say.
C17_FinalReportLines ==
    pc = "exited" =>
        /\ "Contains cycles" \in Elements(report) <=> Len(topo_order) # n
        /\ "Improper node ordering" \in Elements(report) <=> violations # <<>>
        /\ "NETWORK IS A VALID DAG!" \in Elements(report)
              <=> (Len(topo_order) = n /\ violations = <<>>)
        /\ "NETWORK HAS ISSUES:" \in Elements(report)
              <=> (Len(topo_order) # n \/ violations # <<>>)
        /\ is_valid_dag <=> Len(topo_order) = n

\* An acyclic network with a backward edge has been reported: the value
\* returned is True and only the ordering line is printed.
C17_Witness ==
    /\ pc = "exited"
    /\ is_valid_dag
    /\ violations # <<>>
    /\ report = <<"NETWORK HAS ISSUES:", "Improper node ordering",
                  "Network needs fixing!">>

\* adj_list has been built and is the object handed to the checks.
AdjacencyBuilt == pc \notin {"start", "analyze", "crashed"}

\* Both cycle checks of analyze_dag_structure have returned.
AfterCycleChecks == pc \in {"ordering", "final", "exited"}

\* Every key of the first adjacency list is kept by the second with the
\* same list of successors; a key the second one adds has an empty list.
SameEdgeLists(before, after) ==
    /\ DOMAIN before \subseteq DOMAIN after
    /\ \A u \in DOMAIN after : after[u] = Lookup(before, u)

\* The verdicts obtained by running the two cycle checks in the other
\* order on a fresh adjacency list, and by running them once more on the
\* adjacency list the run leaves behind, equal the run's own; so do the
\* scans of the matrix when repeated.
RepeatableVerdicts ==
    LET fresh == matrix_to_adjacency_list(matrix)
        kahnFirst == topological_sort_kahn(fresh, n)
        dfsSecond == has_cycle_dfs(kahnFirst.adj, n)
        dfsAgain == has_cycle_dfs(adj_list, n)
        kahnAgain == topological_sort_kahn(dfsAgain.adj, n)
    IN  /\ kahnFirst.topo_order = topo_order
        /\ KahnIsDag(kahnFirst) = is_dag
        /\ (dfsSecond.ret = "true") = has_cycle
        /\ (dfsAgain.ret = "true") = has_cycle
        /\ kahnAgain.topo_order = topo_order
        /\ KahnIsDag(kahnAgain) = is_dag
        /\ SameEdgeLists(fresh, adj_list)
        /\ self_loops = CountSelfLoops(matrix)
        /\ total_edges = CountEdges(matrix)
        /\ AfterOrderingScan => violations = verify_node_ordering(matrix)

\* C18: no step changes the loaded matrix; every step after the adjacency
\* list is built keeps each node's edge list, adding at most keys with an
\* empty list; and the checks, run again or in the other order, give the
\* same verdicts, counts and topological order.
C18_ChecksAreReadOnly ==
    /\ [][matrix # NoMatrix => matrix' = matrix]_vars
    /\ [][AdjacencyBuilt => SameEdgeLists(adj_list, adj_list')]_vars
    /\ [](AfterCycleChecks => RepeatableVerdicts)

\* Both cycle checks have run on a cyclic network one of whose nodes has
\* no outgoing edge, and the matrix is still the one that was loaded.
C18_Witness ==
    /\ pc = "exited"
    /\ matrix = NpArray(Floats(csv))
    /\ has_cycle
    /\ total_edges = 3
    /\ sinks # <<>>

\* has_cycle_dfs has reached a return statement.
DfsReturned == pc = "has_cycle_dfs" /\ dfs.ret # "none"

\* The root loop has tested color[i] for exactly the nodes below dfs.i.
RootsTried == 0..(dfs.i - 1)

\* C19 as stated: by the time has_cycle_dfs returns, every node 0..N-1 has
\* been considered as a root, and a return of False leaves every node
\* Black.
C19_EveryNodeTriedAsRoot ==
    DfsReturned =>
        /\ RootsTried = 0..(n - 1)
        /\ dfs.ret = "false" => \A v \in 0..(n - 1) : dfs.color[v] = Black

\* One step of the colouring: a node keeps its colour, or goes from White
\* to Gray, or from Gray to Black.
ColourStep(old, new) ==
    \/ new = old
    \/ old = White /\ new = Gray
    \/ old = Gray /\ new = Black

\* C19, amended: the root loop considers the nodes in increasing order, each
\* at most once, and all of them when the function returns False; a return
\* of True leaves the nodes after the current root untried and the nodes
\* on the path Gray.  Every colour moves only White -> Gray -> Black, so a
\* node is entered at most once, and a return of False leaves every node
\* Black.
C19_DfsColouring ==
    /\ [][dfs'.i \in {dfs.i, dfs.i + 1}]_vars
    /\ [][\A v \in 0..(n - 1) : ColourStep(dfs.color[v], dfs'.color[v])]_vars
    /\ [](dfs.i <= n)
    /\ [](dfs.ret = "false" =>
            /\ RootsTried = 0..(n - 1)
            /\ \A v \in 0..(n - 1) : dfs.color[v] = Black)
    /\ [](dfs.ret = "true" => \E v \in RootsTried : dfs.color[v] = Gray)

\* has_cycle_dfs has returned True with a node finished, a node still on
\* the path and a node never tried as a root.
C19_Witness ==
    /\ DfsReturned
    /\ dfs.ret = "true"
    /\ dfs.i < n
    /\ \E v \in 0..(n - 1) : dfs.color[v] = Black
    /\ \E v \in 0..(n - 1) : dfs.color[v] = Gray
    /\ dfs.color[n - 1] = White

\* ------------------------------------------- has_cycle_dfs under relabelling
MaxRelabelN == 3    \* relabelled calls: node counts 0..MaxRelabelN

\* The adjacency list of the same graph with node u renamed p[u]: every
\* list keeps its positions, so the order in which roots and neighbours
\* are tried changes with p.
Relabel(adj, p) ==
    [w \in {p[u] : u \in DOMAIN adj} |->
        LET u == CHOOSE x \in DOMAIN adj : p[x] = w
        IN  [k \in 1..Len(adj[u]) |-> p[adj[u][k]]]]

RelabelInit ==
    /\ \E nn \in 0..MaxRelabelN :
          \E E \in UpTo((0..(nn - 1)) \X (0..(nn - 1)), MaxEdges) :
          \E shape \in ListShapes :
              /\ n = nn
              /\ adj_list = AdjOf(E, shape)
    /\ csv = <<>>
    /\ pc = "original"
    /\ dfs = DfsInit(adj_list, n)
    /\ kahn = KahnInit(<<>>, 0)
    /\ gen = NoGen
    /\ Idle

\* has_cycle = has_cycle_dfs(adj_list, n) on the graph as given.
OriginalRun ==
    /\ pc = "original"
    /\ dfs' = has_cycle_dfs(adj_list, n)
    /\ has_cycle' = (dfs'.ret = "true")
    /\ adj_list' = dfs'.adj
    /\ pc' = "original_done"
    /\ UNCHANGED <<gen, csv, matrix, n, total_edges, self_loops, sources, sinks, kahn,
                   topo_order, is_dag, is_valid_dag, violations, ordering_valid,
                   report, error, exit_status>>

\* has_cycle_dfs(relabelled, n) on the same graph under a renaming of its
\* nodes; the frame of the second call is kept in dfs.
RelabelledRun ==
    /\ pc = "original_done"
    /\ \E p \in Permutations(0..(n - 1)) :
          dfs' = has_cycle_dfs(Relabel(adj_list, p), n)
    /\ pc' = "relabelled"
    /\ UNCHANGED <<gen, csv, matrix, n, adj_list, total_edges, self_loops, sources,
                   sinks, kahn, has_cycle, topo_order, is_dag, is_valid_dag,
                   violations, ordering_valid, report, error, exit_status>>

RelabelNext ==
    \/ OriginalRun
    \/ RelabelledRun

RelabelSpec == RelabelInit /\ [][RelabelNext]_vars

\* C20: for every graph and every permutation of its node indices,
\* has_cycle_dfs returns on the relabelled graph what it returned on the
\* original, whatever order of roots and neighbours the relabelling
\* induces.
C20_VerdictUnderRelabelling ==
    pc = "relabelled" => ((dfs.ret = "true") <=> has_cycle)

\* The cycle 0 -> 1 -> 0 of a three-node graph has been found again after
\* its nodes were renamed 1 and 2.
C20_Witness ==
    /\ pc = "relabelled"
    /\ n = 3
    /\ has_cycle
    /\ EdgesOf(adj_list) = {<<0, 1>>, <<1, 0>>}
    /\ EdgesOf(dfs.adj) = {<<1, 2>>, <<2, 1>>}

\* ================================================================ generators
\* The generator scripts build dag_matrix in memory, with weights drawn by
\* random.uniform, and write it with one decimal.  Generator values are kept
\* in hundredths (0.57 is 57); the file holds tenths.  The 800-node layout is
\* scaled: GenNodes nodes in two groups, the first ending before GroupEnd
\* (350 in the source), the last one ending at GenNodes (800).
GenNodes == 5       \* generators: node count (800)
GroupEnd == 2       \* generators: first node after the first group (350)
SampleSize == 1     \* generators: connections sampled per call (1..6)

\* range(a, b)
Range(a, b) == a..(b - 1)

\* random.sample(S, min(k, len(S))): the targets drawn, as a set.
Sample(S, k) ==
    {T \in SUBSET S :
        Cardinality(T) = IF k < Cardinality(S) THEN k ELSE Cardinality(S)}

\* random.uniform(lo, hi): two of the values it can return, neither of them
\* halfway between two tenths.
UniformDraws(lo, hi) == {lo + 1, hi - 1}

\* np.zeros((rows, cols))
Zeros(rows, cols) ==
    [rows |-> [i \in 1..rows |-> [j \in 1..cols |-> 0]], ndim |-> 2]

\* for target in cols: dag_matrix[i, target] = random.uniform(lo, hi):
\* the matrices the loop can leave behind.
RowWrites(m, i, cols, lo, hi) ==
    {[m EXCEPT !.rows[i + 1] =
          [c \in 1..Len(m.rows[i + 1]) |->
              IF (c - 1) \in cols THEN w[c - 1] ELSE m.rows[i + 1][c]]] :
        w \in [cols -> UniformDraws(lo, hi)]}

\* f"{val:.1f}" if val != 0 else "0.0": a value in hundredths is written
\* as the nearest tenth.
Format1(val) == IF val = 0 THEN 0 ELSE (val + 5) \div 10

\* write_csv(matrix, filename): one row of formatted tokens per matrix row.
write_csv(m) ==
    [r \in 1..Len(m.rows) |->
        [c \in 1..Len(m.rows[r]) |-> Num(Format1(m.rows[r][c]))]]

\* ---------------------------------------- generate_acyclic_ergo_proxy_dag.py
\* The matrix after the prior column is set: 1.0 for the source node (node
\* number 1, row 0), 0.8 - i * 0.01 for the others.
AcyclicPriors ==
    [Zeros(GenNodes, GenNodes + 1) EXCEPT
        !.rows = [i \in 1..GenNodes |->
                    [j \in 1..(GenNodes + 1) |->
                        IF j # 1 THEN 0 ELSE IF i = 1 THEN 100 ELSE 80 - (i - 1)]]]

\* forward_targets of a character-state row: range(i+1, 350) extended by
\* the later groups, range(351, 550) and so on; valid_targets keeps
\* t <= 800.
CharacterTargets(i) ==
    {t \in Range(i + 1, GroupEnd) \cup Range(GroupEnd + 1, GenNodes) : t <= GenNodes}

\* for target in random.sample(valid_targets, min(5, len(valid_targets))):
\*     dag_matrix[i, target] = random.uniform(0.2, 0.6)
CharacterRow(m, i) ==
    IF CharacterTargets(i) = {} THEN {m}
    ELSE UNION {RowWrites(m, i, T, 20, 60) : T \in Sample(CharacterTargets(i), SampleSize)}

\* for i in range(200, 350): the matrices possible after rows i.. of the
\* first group are done, starting from any matrix of Ms.
RECURSIVE CharacterLoop(_, _)
CharacterLoop(Ms, i) ==
    IF i >= GroupEnd THEN Ms
    ELSE CharacterLoop(UNION {CharacterRow(m, i) : m \in Ms}, i + 1)

\* forward_targets = list(range(i+1, 800)); three of them are sampled.
RevelationRow(m, i) ==
    IF Range(i + 1, GenNodes) = {} THEN {m}
    ELSE UNION {RowWrites(m, i, T, 60, 90) : T \in Sample(Range(i + 1, GenNodes), SampleSize)}

\* for i in range(751, 799)
RECURSIVE RevelationLoop(_, _)
RevelationLoop(Ms, i) ==
    IF i >= GenNodes - 1 THEN Ms
    ELSE RevelationLoop(UNION {RevelationRow(m, i) : m \in Ms}, i + 1)

\* The matrices create_acyclic_ergo_proxy_dag() can return.
create_acyclic_ergo_proxy_dag ==
    RevelationLoop(CharacterLoop({AcyclicPriors}, 0), GroupEnd + 1)

\* The generator script is started.
GenInit ==
    /\ csv = <<>>
    /\ pc = "generate"
    /\ n = 0
    /\ adj_list = <<>>
    /\ dfs = DfsInit(<<>>, 0)
    /\ kahn = KahnInit(<<>>, 0)
    /\ gen = NoGen
    /\ Idle

\* dag_matrix = create_acyclic_ergo_proxy_dag()
CreateAcyclic ==
    /\ pc = "generate"
    /\ \E m \in create_acyclic_ergo_proxy_dag : gen' = [gen EXCEPT !.dag_matrix = m]
    /\ pc' = "write_csv"
    /\ UNCHANGED <<csv, matrix, n, adj_list, total_edges, self_loops, sources,
                   sinks, dfs, kahn, has_cycle, topo_order, is_dag, is_valid_dag,
                   violations, ordering_valid, report, error, exit_status>>

\* write_csv(dag_matrix, "ergo_proxy_dag_network.csv"): the file is the one
\* the verifier is then started on.
WriteCsv ==
    /\ pc = "write_csv"
    /\ csv' = write_csv(gen.dag_matrix)
    /\ pc' = "start"
    /\ UNCHANGED <<gen, matrix, n, adj_list, total_edges, self_loops, sources,
                   sinks, dfs, kahn, has_cycle, topo_order, is_dag, is_valid_dag,
                   violations, ordering_valid, report, error, exit_status>>

\* The verifier's steps on a file a generator wrote.
VerifierRun ==
    \/ LoadReturns
    \/ BuildAdjacency
    \/ Density
    \/ SelfLoopScan
    \/ SourcesSinks
    \/ CycleDetection
    \/ TopologicalSort
    \/ VerifyOrdering
    \/ FinalVerification

AcyclicGenNext ==
    \/ CreateAcyclic
    \/ WriteCsv
    \/ VerifierRun

AcyclicGenSpec == GenInit /\ [][AcyclicGenNext]_vars

\* The nonzero entries of columns 1.. of a generator matrix.
EdgeEntries(m) ==
    {c \in (0..(Shape0(m) - 1)) \X (1..(Shape1(m) - 1)) : At(m, c[1], c[2]) # 0}

\* C21: every nonzero entry dag_matrix[i][c], c >= 1, that
\* create_acyclic_ergo_proxy_dag returns is an edge to a node c-1 > i, and
\* the verifier run on the written file finds 0 self-loops and 0 ordering
\* violations.
C21_AcyclicGeneratorForwardOnly ==
    /\ gen.dag_matrix.ndim = 2 =>
          \A c \in EdgeEntries(gen.dag_matrix) : c[2] - 1 > c[1]
    /\ (gen.dag_matrix.ndim = 2 /\ AfterSelfLoopScan) => self_loops = 0
    /\ (gen.dag_matrix.ndim = 2 /\ AfterOrderingScan) => violations = <<>>

\* -------------------------------------------- generate_final_acyclic_dag.py
\* source_nodes, 0-indexed; the scaled layout keeps the first.
source_nodes == {0}

\* The matrix after the prior column is set: 1.0 for a source node,
\* 0.8 - i * 0.01 for the others, and np.maximum(..., 0.1) over the column.
FinalPriors ==
    [Zeros(GenNodes, GenNodes + 1) EXCEPT
        !.rows = [i \in 1..GenNodes |->
                    [j \in 1..(GenNodes + 1) |->
                        IF j # 1 THEN 0
                        ELSE IF (i - 1) \in source_nodes THEN 100
                        ELSE IF 80 - (i - 1) > 10 THEN 80 - (i - 1) ELSE 10]]]

\* Variant: the target is used as the column index, without the offset for
\* the prior column.
add_forward_connectionsNoOffset(m, source_idx, target_range, num_connections, lo, hi) ==
    LET valid_targets == {t \in target_range : t > source_idx /\ t < GenNodes}
    IN  IF valid_targets # {} /\ num_connections > 0
        THEN UNION {RowWrites(m, source_idx, selected, lo, hi) :
                        selected \in Sample(valid_targets, num_connections)}
        ELSE {m}

\* add_forward_connections(source_idx, target_range, num_connections,
\* prob_range) on dag_matrix = m: the matrices it can leave behind.  Only
\* targets t with source_idx < t < 800 are kept, and target t is written to
\* column t + 1.
add_forward_connections(m, source_idx, target_range, num_connections, lo, hi) ==
    LET valid_targets == {t \in target_range : t > source_idx /\ t < GenNodes}
    IN  IF valid_targets # {} /\ num_connections > 0
        THEN UNION {RowWrites(m, source_idx, {t + 1 : t \in selected}, lo, hi) :
                        selected \in Sample(valid_targets, num_connections)}
        ELSE {m}

\* One row of the first group: later nodes of the group, then the nodes of
\* the later group.
FinalPlotRow(m, i) ==
    UNION {add_forward_connections(m1, i, Range(GroupEnd, GenNodes), SampleSize, 20, 50) :
              m1 \in add_forward_connections(m, i, Range(i + 1, GroupEnd), SampleSize, 30, 60)}

\* for i in range(1, 200): if i not in source_nodes: ...
RECURSIVE FinalPlotLoop(_, _)
FinalPlotLoop(Ms, i) ==
    IF i >= GroupEnd THEN Ms
    ELSE IF i \in source_nodes THEN FinalPlotLoop(Ms, i + 1)
    ELSE FinalPlotLoop(UNION {FinalPlotRow(m, i) : m \in Ms}, i + 1)

\* for i in range(750, 799): add_forward_connections(i, range(i+1, 800), 2, ...)
RECURSIVE FinalRevelationLoop(_, _)
FinalRevelationLoop(Ms, i) ==
    IF i >= GenNodes - 1 THEN Ms
    ELSE FinalRevelationLoop(
             UNION {add_forward_connections(m, i, Range(i + 1, GenNodes), SampleSize, 60, 90) :
                       m \in Ms},
             i + 1)

\* The matrices create_final_acyclic_dag() can return: the fan-out of the
\* source node (into its own group, the first of pulse_targets), then the
\* group loops.
create_final_acyclic_dag ==
    FinalRevelationLoop(
        FinalPlotLoop(
            add_forward_connections(FinalPriors, 0, Range(1, GroupEnd), SampleSize, 40, 90),
            1),
        GroupEnd)

\* Variant: only entries pointing strictly backward are counted.
verify_forward_onlyStrict(m) ==
    Cardinality({c \in (0..(Shape0(m) - 1)) \X (1..(Shape1(m) - 1)) :
                    At(m, c[1], c[2]) > 0 /\ c[2] - 1 < c[1]})

\* self_loops after rows 0..k-1 of the loop of verify_no_self_loops.
RECURSIVE SelfLoopsBelow(_, _)
SelfLoopsBelow(m, k) ==
    IF k <= 0 THEN 0
    ELSE SelfLoopsBelow(m, k - 1)
         + (IF k < Shape1(m) /\ At(m, k - 1, k) > 0 THEN 1 ELSE 0)

verify_no_self_loops(m) == SelfLoopsBelow(m, Shape0(m))

\* violations: one increment per entry > 0 of columns 1.. whose target
\* j - 1 is <= i.
verify_forward_only(m) ==
    Cardinality({c \in (0..(Shape0(m) - 1)) \X (1..(Shape1(m) - 1)) :
                    At(m, c[1], c[2]) > 0 /\ c[2] - 1 <= c[1]})

\* dag_matrix = create_final_acyclic_dag()
CreateFinal ==
    /\ pc = "generate"
    /\ \E m \in create_final_acyclic_dag : gen' = [gen EXCEPT !.dag_matrix = m]
    /\ pc' = "pre_save"
    /\ UNCHANGED <<csv, matrix, n, adj_list, total_edges, self_loops, sources,
                   sinks, dfs, kahn, has_cycle, topo_order, is_dag, is_valid_dag,
                   violations, ordering_valid, report, error, exit_status>>

\* self_loops = verify_no_self_loops(dag_matrix)
\* violations = verify_forward_only(dag_matrix)
PreSaveChecks ==
    /\ pc = "pre_save"
    /\ gen' = [gen EXCEPT !.self_loops = verify_no_self_loops(gen.dag_matrix),
                          !.violations = verify_forward_only(gen.dag_matrix)]
    /\ pc' = "save_branch"
    /\ UNCHANGED <<csv, matrix, n, adj_list, total_edges, self_loops, sources,
                   sinks, dfs, kahn, has_cycle, topo_order, is_dag, is_valid_dag,
                   violations, ordering_valid, report, error, exit_status>>

\* if self_loops == 0 and violations == 0: write_csv(...), after which the
\* verifier can be started on the file; else "not saving".
SaveBranch ==
    /\ pc = "save_branch"
    /\ IF gen.self_loops = 0 /\ gen.violations = 0
       THEN /\ csv' = write_csv(gen.dag_matrix)
            /\ pc' = "start"
       ELSE /\ pc' = "not_saved"
            /\ UNCHANGED csv
    /\ UNCHANGED <<gen, matrix, n, adj_list, total_edges, self_loops, sources,
                   sinks, dfs, kahn, has_cycle, topo_order, is_dag, is_valid_dag,
                   violations, ordering_valid, report, error, exit_status>>

FinalGenNext ==
    \/ CreateFinal
    \/ PreSaveChecks
    \/ SaveBranch
    \/ VerifierRun

FinalGenSpec == GenInit /\ [][FinalGenNext]_vars

\* The generator has passed its save-or-refuse branch.
AfterSaveBranch == gen.dag_matrix.ndim = 2 /\ pc \notin {"generate", "pre_save", "save_branch"}

\* C22: every edge create_final_acyclic_dag writes goes from a node s to a
\* node t with s < t < 800 (GenNodes here), so verify_no_self_loops and
\* verify_forward_only both return 0, the branch that writes the CSV is
\* always the one taken, and a file exists only after two zero counts.
C22_FinalGeneratorForwardOnly ==
    /\ gen.dag_matrix.ndim = 2 =>
          \A c \in EdgeEntries(gen.dag_matrix) :
              c[1] < c[2] - 1 /\ c[2] - 1 < GenNodes
    /\ pc # "not_saved"
    /\ AfterSaveBranch =>
          /\ gen.self_loops = 0
          /\ gen.violations = 0
          /\ csv = write_csv(gen.dag_matrix)
    /\ csv # <<>> => (gen.self_loops = 0 /\ gen.violations = 0)

\* A generated matrix with at least four edges has been checked and
\* written.
C22_Witness ==
    /\ pc = "start"
    /\ csv # <<>>
    /\ Cardinality(EdgeEntries(gen.dag_matrix)) >= 4
    /\ At(gen.dag_matrix, GenNodes - 2, GenNodes) > 0

\* ------------------------------------------------------------- termination
\* The loop steps has_cycle_dfs still owes for node v: a White node owes
\* one step per neighbour and the step that turns it Black, a node on the
\* recursion stack what is left of that, any other node nothing.
DfsNodeCost(d, v) ==
    IF d.color[v] = White THEN Len(Lookup(d.adj, v)) + 1
    ELSE IF \E f \in 1..Len(d.stack) : d.stack[f].node = v
    THEN LET f == CHOOSE g \in 1..Len(d.stack) : d.stack[g].node = v
         IN  Len(Lookup(d.adj, v)) - d.stack[f].k + 2
    ELSE 0

RECURSIVE DfsCostBelow(_, _)
DfsCostBelow(d, k) ==
    IF k <= 0 THEN 0 ELSE DfsCostBelow(d, k - 1) + DfsNodeCost(d, k - 1)

\* A bound on the steps has_cycle_dfs can still take: the return, the root
\* iterations left, and what the nodes owe.
DfsRank(d) ==
    (IF d.ret = "none" THEN 1 ELSE 0) + (d.n - d.i) + DfsCostBelow(d, d.n)

\* What topological_sort_kahn still owes for node v: nothing once v is
\* dequeued and its loop is over; the rest of its loop while it is the
\* current node; otherwise the dequeue, one step per neighbour and the end
\* of the loop.
KahnNodeCost(q, v) ==
    IF q.cur # <<>> /\ q.cur[1].node = v
    THEN Len(Lookup(q.adj, v)) - q.cur[1].k + 2
    ELSE IF v \in Elements(q.topo_order) THEN 0
    ELSE Len(Lookup(q.adj, v)) + 2

RECURSIVE KahnCostBelow(_, _)
KahnCostBelow(q, k) ==
    IF k <= 0 THEN 0 ELSE KahnCostBelow(q, k - 1) + KahnNodeCost(q, k - 1)

KahnRank(q) == (IF q.done THEN 0 ELSE 1) + KahnCostBelow(q, q.n)

\* C23: has_cycle_dfs and topological_sort_kahn terminate on every
\* adjacency list, self-loops and cycles included: every loop step lowers a
\* bound that is never negative, no node is on the recursion stack twice
\* and every node on it is Gray, and Kahn's loop dequeues no node twice, so
\* at most N nodes.
C23_BothTerminate ==
    /\ pc = "has_cycle_dfs" =>
          /\ DfsRank(dfs) >= 0
          /\ dfs.ret = "none" => DfsRank(DfsStep(dfs)) < DfsRank(dfs)
          /\ \A f, g \in 1..Len(dfs.stack) :
                /\ dfs.stack[f].node = dfs.stack[g].node => f = g
                /\ dfs.color[dfs.stack[f].node] = Gray
    /\ pc = "topological_sort_kahn" =>
          /\ KahnRank(kahn) >= 0
          /\ ~kahn.done => KahnRank(KahnStep(kahn)) < KahnRank(kahn)
          /\ NoDuplicates(kahn.topo_order)
          /\ Len(kahn.topo_order) <= n
    /\ pc = "returned" => Len(topo_order) <= n

\* Both functions have returned on a four-node graph with a self-loop and
\* a longer cycle.
C23_Witness ==
    /\ BothReturned
    /\ n = 4
    /\ has_cycle
    /\ \E v \in 0..3 : <<v, v>> \in EdgesOf(adj_list)
    /\ \E u, v \in 0..3 : u # v /\ {<<u, v>>, <<v, u>>} \subseteq EdgesOf(adj_list)

\* ------------------------------------------------- Kahn's loop invariants
\* The nodes topological_sort_kahn has dequeued so far.
Dequeued == Elements(kahn.topo_order)

\* The entries for v in the lists of the nodes not yet dequeued.
EdgesFromWaiting(v) == InDegreeOver(kahn.adj, DOMAIN kahn.adj \ Dequeued, v)

\* The entries for v that the loop over the current node's list has not
\* reached yet.
EdgesFromCurrent(v) ==
    IF kahn.cur = <<>> THEN 0
    ELSE LET nbrs == Lookup(kahn.adj, kahn.cur[1].node)
         IN  Cardinality({k \in kahn.cur[1].k..Len(nbrs) : nbrs[k] = v})

Predecessors(v) == {e[1] : e \in {f \in EdgesOf(kahn.adj) : f[2] = v}}

C25_AnalyzeCompletes ==
    (WellShaped /\ Shape0(matrix) >= 1) =>
        /\ error = ""
        /\ pc # "crashed"

\* ----------------------------------------- pre-save checks on any matrix
\* An in-memory matrix of nn x (nn+1) with 0.26 at the cells of P, at most
\* one other value (negative, below 0.05, or 1.0) and 0 elsewhere.
GenOverrides(nn) ==
    {<<>>} \cup {<<[cell |-> c, val |-> v]>> : c \in AllCells(nn), v \in {-50, 4, 100}}

MkMatrix(nn, P, ov) ==
    [rows |-> [r \in 1..nn |->
                 [c \in 1..(nn + 1) |->
                     IF ov # <<>> /\ ov[1].cell = <<r - 1, c - 1>> THEN ov[1].val
                     ELSE IF <<r - 1, c - 1>> \in P THEN 26
                     ELSE 0]],
     ndim |-> 2]

\* The matrix of a file: each token's value, in hundredths.
MatrixOfCsv(file) ==
    [rows |-> [r \in 1..Len(file) |->
                 [c \in 1..Len(file[r]) |-> 10 * file[r][c].val]],
     ndim |-> 2]

\* The pre-save checks are about to run on some matrix.
PreSaveInit ==
    /\ \/ \E nn \in 1..MaxRows : \E P \in UpTo(EdgeCells(nn), MaxWeights) :
            \E ov \in GenOverrides(nn) :
                gen = [NoGen EXCEPT !.dag_matrix = MkMatrix(nn, P, ov)]
       \/ \E file \in {WideCsv, NarrowCsv} :
            gen = [NoGen EXCEPT !.dag_matrix = MatrixOfCsv(file)]
    /\ csv = <<>>
    /\ pc = "pre_save"
    /\ n = 0
    /\ adj_list = <<>>
    /\ dfs = DfsInit(<<>>, 0)
    /\ kahn = KahnInit(<<>>, 0)
    /\ Idle

PreSaveNext ==
    \/ PreSaveChecks
    \/ SaveBranch
    \/ VerifierRun

PreSaveSpec == PreSaveInit /\ [][PreSaveNext]_vars

\* The generator's two counts have been taken.
AfterPreSaveChecks == gen.dag_matrix.ndim = 2 /\ pc # "pre_save"

\* C26: on every matrix verify_no_self_loops returns the self-loop count
\* analyze_dag_structure computes and verify_forward_only the number of
\* violations verify_node_ordering records; a file is written only for
\* two zero counts, and the verifier's scans of that file find no
\* self-loop and no ordering violation.
C26_PreSaveChecksAgree ==
    /\ AfterPreSaveChecks =>
          /\ gen.self_loops = CountSelfLoops(gen.dag_matrix)
          /\ gen.violations = Len(verify_node_ordering(gen.dag_matrix))
    /\ (AfterPreSaveChecks /\ csv # <<>>) =>
          (gen.self_loops = 0 /\ gen.violations = 0)
    /\ (AfterPreSaveChecks /\ AfterSelfLoopScan) => self_loops = 0
    /\ (AfterPreSaveChecks /\ AfterOrderingScan) =>
          (violations = <<>> /\ ordering_valid)

\* A matrix with forward edges only, one of them too light to survive the
\* one-decimal format, has been accepted, written and verified.
C26_Witness ==
    /\ AfterPreSaveChecks
    /\ pc = "exited"
    /\ Cardinality(EdgeEntries(gen.dag_matrix)) = 3
    /\ total_edges = 2
    /\ violations = <<>>

====
